---- MODULE Spec2Model ----
(***************************************************************************)
(* Model of the ProjectHub embedding service (embedding-service/main.py):  *)
(* the process-wide model holder, its startup load, and the three request  *)
(* handlers GET /health, POST /embed and GET /.  Every handler is an async *)
(* function without an await, so the event loop runs each one to the end   *)
(* before it starts another: one action per handler.                       *)
(***************************************************************************)
EXTENDS Integers, Sequences, FiniteSets

VARIABLES model, startup, loadResult, lastLog, request, response, encodeArgs

vars == <<model, startup, loadResult, lastLog, request, response, encodeArgs>>

(***************************************************************************)
(* Program constants.                                                      *)
(***************************************************************************)
MODEL_NAME == "all-MiniLM-L6-v2"

MaxTexts == 100

RootDimensions == 384

None == [name |-> "None"]

(***************************************************************************)
(* Bounds of the model.                                                    *)
(***************************************************************************)
\* number of clients with a request in flight at the same time
NumClients == 2

\* length of the vectors the modelled embedding model produces
EmbDim == 3

Clients == 1..NumClients

Texts == {"a", "b"}

\* fixed-point unit of the vector components (1.0 is Scale)
Scale == 1000

\* tolerance on the squared norm, in fixed-point units: 1 percent
NormTol == (Scale * Scale) \div 100

\* the batch of n texts that alternates the two texts, starting with first
Alternating(n, first) ==
    [i \in 1..n |-> IF i % 2 = 1 THEN first
                    ELSE CHOOSE t \in Texts : t # first]

\* request batches: the lengths on both sides of the two limits, 0 and 1,
\* MaxTexts and MaxTexts + 1
Batches ==
    {<<>>, Alternating(1, "b"),
     Alternating(MaxTexts, "a"), Alternating(MaxTexts + 1, "a")}

\* the normalize field of the JSON body: given, or left out
NormalizeFields == {"true", "false", "omitted"}

\* request bodies: every batch with normalize given as true, and the
\* single-text batch with each form of the normalize field
EmbedBodies ==
    {[texts |-> b, normalize |-> "true"] : b \in Batches}
    \cup {[texts |-> Alternating(1, "b"), normalize |-> f] :
             f \in NormalizeFields}

NoBody == [texts |-> <<>>, normalize |-> "omitted"]

NoRequest == [path |-> "none", body |-> NoBody]

Requests ==
    {[path |-> "/health", body |-> NoBody], [path |-> "/", body |-> NoBody]}
    \cup {[path |-> "/embed", body |-> b] : b \in EmbedBodies}

\* what SentenceTransformer(MODEL_NAME) can raise at startup
LoadErrors == {"OSError: model files not found"}

\* what model.encode can raise
EncodeErrors == {"RuntimeError: out of memory", "ValueError: bad input"}

LoadedModel == [name |-> MODEL_NAME]

NoResponse == [status |-> 0]

NoCall == [call |-> [called |-> FALSE], raised |-> ""]

NoLog == [level |-> "none", text |-> "", n |-> 0, detail |-> ""]

Info(text, n) == [level |-> "info", text |-> text, n |-> n, detail |-> ""]

Error(text, e) == [level |-> "error", text |-> text, n |-> 0, detail |-> e]

(***************************************************************************)
(* The state after the module is imported: no model, startup not yet run.  *)
(***************************************************************************)
Init ==
    /\ model = None
    /\ startup = "pending"
    /\ loadResult = "none"
    /\ lastLog = NoLog
    /\ request = [c \in Clients |-> NoRequest]
    /\ response = [c \in Clients |-> NoResponse]
    /\ encodeArgs = [c \in Clients |-> NoCall]

(***************************************************************************)
(* Startup: load_model runs once; an exception it re-raises aborts the     *)
(* startup of the application.                                             *)
(***************************************************************************)
\* faulty variant: the exception of the load is logged and swallowed
load_model_swallow ==
    /\ startup = "pending"
    /\ \E outcome \in {"ok"} \cup LoadErrors :
          /\ loadResult' = outcome
          /\ startup' = "complete"
          /\ IF outcome = "ok"
             THEN /\ model' = LoadedModel
                  /\ lastLog' = Info("Model loaded successfully", 0)
             ELSE /\ model' = model
                  /\ lastLog' = Error("Failed to load model", outcome)
    /\ UNCHANGED <<request, response, encodeArgs>>

load_model ==
    /\ startup = "pending"
    /\ \E outcome \in {"ok"} \cup LoadErrors :
          /\ loadResult' = outcome
          /\ IF outcome = "ok"
             THEN /\ model' = LoadedModel
                  /\ startup' = "complete"
                  /\ lastLog' = Info("Model loaded successfully", 0)
             ELSE /\ model' = model
                  /\ startup' = "failed"
                  /\ lastLog' = Error("Failed to load model", outcome)
    /\ UNCHANGED <<request, response, encodeArgs>>

\* the application handles requests unless its startup was aborted
Serving == startup # "failed"

(***************************************************************************)
(* The embedding model behind model.encode, in fixed-point arithmetic: a   *)
(* text has a raw integer vector; encode scales it to Scale units and,     *)
(* when asked to normalize, divides it by its L2 norm.                     *)
(***************************************************************************)
RawVector(t) ==
    [j \in 1..EmbDim |->
        IF t = "a" THEN (IF j = 1 THEN 3 ELSE IF j = 2 THEN 4 ELSE 0)
        ELSE 1]

RECURSIVE SumSq(_)
SumSq(v) == IF v = <<>> THEN 0 ELSE Head(v) * Head(v) + SumSq(Tail(v))

\* the largest r in lo..hi with r * r <= n, by bisection
RECURSIVE Bisect(_, _, _)
Bisect(lo, hi, n) ==
    IF lo = hi THEN lo
    ELSE LET mid == (lo + hi + 1) \div 2
         IN  IF mid * mid <= n THEN Bisect(mid, hi, n)
             ELSE Bisect(lo, mid - 1, n)

ISqrt(n) == Bisect(0, 46340, n)

\* the L2 norm of a raw vector, in fixed-point units
L2Norm(v) == ISqrt(SumSq(v) * Scale * Scale)

EmbedText(t, normalize_embeddings) ==
    LET v == RawVector(t)
    IN  IF normalize_embeddings
        THEN [j \in 1..EmbDim |-> (v[j] * Scale * Scale) \div L2Norm(v)]
        ELSE [j \in 1..EmbDim |-> v[j] * Scale]

EmbeddingTable ==
    [t \in Texts |-> [nz \in BOOLEAN |-> EmbedText(t, nz)]]

\* model.encode(texts, normalize_embeddings=..): an ndarray of shape
\* (len(texts), EmbDim), row i the vector of texts[i], stored row-major
encode(args) ==
    LET n == Len(args.texts)
    IN  [shape |-> <<n, EmbDim>>,
         data  |-> [k \in 1..(n * EmbDim) |->
                      EmbeddingTable[args.texts[((k - 1) \div EmbDim) + 1]]
                                    [args.normalize_embeddings]
                                    [((k - 1) % EmbDim) + 1]]]

\* ndarray.tolist() of a two-dimensional array: the list of its rows
tolist(arr) ==
    [i \in 1..arr.shape[1] |->
        [j \in 1..arr.shape[2] |-> arr.data[(i - 1) * arr.shape[2] + j]]]

(***************************************************************************)
(* POST /embed.                                                            *)
(***************************************************************************)
\* faulty variant: normalize defaults to False
EmbeddingRequest_default_false(body) ==
    [texts     |-> body.texts,
     normalize |-> body.normalize = "true"]

\* EmbeddingRequest: texts, and normalize with its default of True
EmbeddingRequest(body) ==
    [texts     |-> body.texts,
     normalize |-> IF body.normalize = "omitted" THEN TRUE
                   ELSE body.normalize = "true"]

HTTPException(status_code, detail) ==
    [status |-> status_code, detail |-> detail]

\* faulty variant: the limit is off by one
Validate_off_by_one(m, req) ==
    IF m = None THEN HTTPException(503, "Model not loaded")
    ELSE IF req.texts = <<>> THEN HTTPException(400, "No texts provided")
    ELSE IF Len(req.texts) >= MaxTexts
         THEN HTTPException(400, "Maximum 100 texts per request")
    ELSE NoResponse

\* faulty variant: the texts are checked before the model holder
Validate_texts_first(m, req) ==
    IF req.texts = <<>> THEN HTTPException(400, "No texts provided")
    ELSE IF Len(req.texts) > MaxTexts
         THEN HTTPException(400, "Maximum 100 texts per request")
    ELSE IF m = None THEN HTTPException(503, "Model not loaded")
    ELSE NoResponse

\* the checks before the try block; NoResponse when the request passes
Validate(m, req) ==
    IF m = None THEN HTTPException(503, "Model not loaded")
    ELSE IF req.texts = <<>> THEN HTTPException(400, "No texts provided")
    ELSE IF Len(req.texts) > MaxTexts
         THEN HTTPException(400, "Maximum 100 texts per request")
    ELSE NoResponse

\* the texts of s without repetitions, in the order of first occurrence
Dedup(s) ==
    LET first == {i \in 1..Len(s) : \A j \in 1..(i - 1) : s[j] # s[i]}
    IN  [k \in 1..Cardinality(first) |->
            s[CHOOSE i \in first : Cardinality({j \in first : j <= i}) = k]]

\* faulty variant: repeated texts are encoded once
EncodeCall_dedup(req) ==
    [called               |-> TRUE,
     texts                |-> Dedup(req.texts),
     normalize_embeddings |-> req.normalize,
     show_progress_bar    |-> FALSE]

\* the arguments of the call of model.encode
EncodeCall(req) ==
    [called               |-> TRUE,
     texts                |-> req.texts,
     normalize_embeddings |-> req.normalize,
     show_progress_bar    |-> FALSE]

\* faulty variant: dimensions is the number of vectors
EmbeddingResponse_count(embeddings) ==
    LET embeddings_list == tolist(embeddings)
    IN  [status     |-> 200,
         embeddings |-> embeddings_list,
         model      |-> MODEL_NAME,
         dimensions |-> Len(embeddings_list)]

\* the EmbeddingResponse built from the array encode returned
EmbeddingResponse(embeddings) ==
    LET embeddings_list == tolist(embeddings)
    IN  [status     |-> 200,
         embeddings |-> embeddings_list,
         model      |-> MODEL_NAME,
         dimensions |-> IF embeddings_list # <<>>
                        THEN Len(embeddings_list[1]) ELSE 0]

\* faulty variant: a failed encode is answered with an empty result
InternalError_empty(e) ==
    [status |-> 200, embeddings |-> <<>>, model |-> MODEL_NAME,
     dimensions |-> 0]

\* the except branch: any exception of the try block becomes a 500
InternalError(e) == HTTPException(500, e)

\* the body of the handler, run against the model holder's value m
HandleEmbed(c, m) ==
    LET req == EmbeddingRequest(request[c].body)
        rejected == Validate(m, req)
    IN  IF rejected # NoResponse
        THEN /\ response' = [response EXCEPT ![c] = rejected]
             /\ UNCHANGED <<encodeArgs, lastLog>>
        ELSE \E raised \in {""} \cup EncodeErrors :
               /\ encodeArgs' = [encodeArgs EXCEPT
                     ![c] = [call |-> EncodeCall(req), raised |-> raised]]
               /\ IF raised = ""
                  THEN LET res == EmbeddingResponse(encode(EncodeCall(req)))
                       IN  /\ response' = [response EXCEPT ![c] = res]
                           /\ lastLog' = Info("Generated embeddings",
                                              Len(res.embeddings))
                  ELSE /\ response' = [response EXCEPT
                                          ![c] = InternalError(raised)]
                       /\ lastLog' = Error("Error generating embeddings",
                                           raised)

\* faulty variant: the handler loads the model itself when the holder is empty
generate_embeddings_lazy(c) ==
    /\ Serving
    /\ request[c].path = "/embed"
    /\ response[c] = NoResponse
    /\ LET m == IF model = None THEN LoadedModel ELSE model
       IN  /\ HandleEmbed(c, m)
           /\ model' = m
    /\ UNCHANGED <<startup, loadResult, request>>

\* faulty variant: the handler drops the model after a failed encode
generate_embeddings_release(c) ==
    /\ Serving
    /\ request[c].path = "/embed"
    /\ response[c] = NoResponse
    /\ HandleEmbed(c, model)
    /\ model' = IF response'[c].status = 500 THEN None ELSE model
    /\ UNCHANGED <<startup, loadResult, request>>

generate_embeddings(c) ==
    /\ Serving
    /\ request[c].path = "/embed"
    /\ response[c] = NoResponse
    /\ HandleEmbed(c, model)
    /\ UNCHANGED <<model, startup, loadResult, request>>

(***************************************************************************)
(* GET /health and GET /.                                                  *)
(***************************************************************************)
\* faulty variant: the health check always reports a loaded model
HealthBody_always(m) ==
    [status       |-> 200,
     health       |-> "healthy",
     model        |-> MODEL_NAME,
     model_loaded |-> TRUE]

HealthBody(m) ==
    [status       |-> 200,
     health       |-> "healthy",
     model        |-> MODEL_NAME,
     model_loaded |-> (m # None)]

health_check(c) ==
    /\ Serving
    /\ request[c].path = "/health"
    /\ response[c] = NoResponse
    /\ response' = [response EXCEPT ![c] = HealthBody(model)]
    /\ UNCHANGED <<model, startup, loadResult, lastLog, request, encodeArgs>>

RootBody ==
    [status     |-> 200,
     service    |-> "ProjectHub Embedding Service",
     model      |-> MODEL_NAME,
     dimensions |-> RootDimensions]

root(c) ==
    /\ Serving
    /\ request[c].path = "/"
    /\ response[c] = NoResponse
    /\ response' = [response EXCEPT ![c] = RootBody]
    /\ UNCHANGED <<model, startup, loadResult, lastLog, request, encodeArgs>>

(***************************************************************************)
(* The clients: a request arrives at a route of the application; the       *)
(* client later takes the response and may send again.                     *)
(***************************************************************************)
Send(c, r) ==
    /\ Serving
    /\ request[c] = NoRequest
    /\ request' = [request EXCEPT ![c] = r]
    /\ UNCHANGED <<model, startup, loadResult, lastLog, response, encodeArgs>>

Receive(c) ==
    /\ response[c] # NoResponse
    /\ request' = [request EXCEPT ![c] = NoRequest]
    /\ response' = [response EXCEPT ![c] = NoResponse]
    /\ encodeArgs' = [encodeArgs EXCEPT ![c] = NoCall]
    /\ UNCHANGED <<model, startup, loadResult, lastLog>>

Next ==
    \/ load_model
    \/ \E c \in Clients : \E r \in Requests : Send(c, r)
    \/ \E c \in Clients : generate_embeddings(c)
    \/ \E c \in Clients : health_check(c)
    \/ \E c \in Clients : root(c)
    \/ \E c \in Clients : Receive(c)

Spec == Init /\ [][Next]_vars

TypeOK ==
    /\ model \in {None, LoadedModel}
    /\ startup \in {"pending", "complete", "failed"}
    /\ loadResult \in {"none", "ok"} \cup LoadErrors
    /\ \A c \in Clients : request[c] \in Requests \cup {NoRequest}

(***************************************************************************)
(* Vocabulary of the properties.                                           *)
(***************************************************************************)
IsEmbed(c) == request[c].path = "/embed"

Handled(c) == response[c] # NoResponse

\* the step answers the request of client c
Answers(c) == response[c] = NoResponse /\ response'[c] # NoResponse

TextsOf(c) == request[c].body.texts

Abs(x) == IF x < 0 THEN 0 - x ELSE x

UnitNorm(v) == Abs(SumSq(v) - Scale * Scale) <= NormTol

\* C1: a request with 1 to 100 texts, handled with the model loaded and
\* whose encode call did not fail, is answered 200 with one vector per
\* text, the i-th vector being the embedding of the i-th text.
C1_CountAndOrder ==
    \A c \in Clients :
        (/\ IsEmbed(c) /\ Handled(c)
         /\ response[c].status # 503
         /\ Len(TextsOf(c)) \in 1..MaxTexts
         /\ encodeArgs[c].raised = "")
        => /\ response[c].status = 200
           /\ Len(response[c].embeddings) = Len(TextsOf(c))
           /\ \A i \in 1..Len(TextsOf(c)) :
                 response[c].embeddings[i] =
                    EmbeddingTable[TextsOf(c)[i]]
                                  [encodeArgs[c].call.normalize_embeddings]

C1_Witness ==
    \E c \in Clients :
        /\ IsEmbed(c) /\ response[c].status = 200
        /\ Len(TextsOf(c)) = MaxTexts
        /\ TextsOf(c)[1] # TextsOf(c)[2]

\* C2: with the model loaded, POST /embed answers 400 exactly when texts
\* is empty or longer than 100; every length from 1 to 100 reaches encode.
C2_BadRequestIff ==
    [][\A c \in Clients :
          (Answers(c) /\ IsEmbed(c) /\ model # None)
          => /\ (response'[c].status = 400)
                   <=> (Len(TextsOf(c)) = 0 \/ Len(TextsOf(c)) > MaxTexts)
             /\ (Len(TextsOf(c)) \in 1..MaxTexts)
                   <=> encodeArgs'[c].call.called]_vars

C2_Witness ==
    /\ model # None
    /\ \E c, d \in Clients :
          /\ IsEmbed(c) /\ response[c].status = 400
          /\ Len(TextsOf(c)) = MaxTexts + 1
          /\ IsEmbed(d) /\ encodeArgs[d].call.called
          /\ Len(TextsOf(d)) = MaxTexts

\* C3: a POST /embed handled while the model is not loaded is answered 503
\* whatever its texts are, and encode is not called for it.
C3_UnavailableFirst ==
    [][\A c \in Clients :
          (Answers(c) /\ IsEmbed(c) /\ model = None)
          => /\ response'[c] = HTTPException(503, "Model not loaded")
             /\ encodeArgs' = encodeArgs
             /\ ~encodeArgs'[c].call.called]_vars

C3_Witness ==
    \E c, d \in Clients :
        /\ IsEmbed(c) /\ response[c].status = 503
        /\ Len(TextsOf(c)) = MaxTexts + 1
        /\ IsEmbed(d) /\ response[d].status = 503
        /\ TextsOf(d) = <<>>

\* C4: an exception of encode is answered 500 with the exception's message
\* and no embeddings; every handled request has exactly one of the outcomes
\* 200 with the full result, 400, 503, 500.
C4_AllOrNothing ==
    \A c \in Clients :
        (IsEmbed(c) /\ Handled(c))
        => /\ response[c].status \in {200, 400, 503, 500}
           /\ (encodeArgs[c].raised # "")
                 <=> (response[c].status = 500)
           /\ (encodeArgs[c].raised # "")
                 => response[c] =
                       [status |-> 500, detail |-> encodeArgs[c].raised]
           /\ (response[c].status = 200)
                 => /\ encodeArgs[c].call.called
                    /\ Len(response[c].embeddings) = Len(TextsOf(c))
           /\ (response[c].status # 200)
                 => "embeddings" \notin DOMAIN response[c]

C4_Witness ==
    \E c, d \in Clients :
        /\ IsEmbed(c) /\ response[c].status = 500
        /\ IsEmbed(d) /\ response[d].status = 500
        /\ response[c].detail # response[d].detail

\* C5: in a successful response all vectors have the same length, and
\* dimensions is that length, 0 only when there are no vectors.
C5_Dimensions ==
    \A c \in Clients :
        (IsEmbed(c) /\ response[c].status = 200)
        => LET e == response[c].embeddings
           IN  /\ \A i \in 1..Len(e) : Len(e[i]) = Len(e[1])
               /\ e # <<>> => response[c].dimensions = Len(e[1])
               /\ (response[c].dimensions = 0) <=> (e = <<>>)

C5_Witness ==
    \E c \in Clients :
        /\ IsEmbed(c) /\ response[c].status = 200
        /\ Len(response[c].embeddings) = MaxTexts
        /\ response[c].dimensions = EmbDim

\* C6: GET /health succeeds whenever it is handled, model_loaded is true
\* exactly when the model holder holds a model, and model is the fixed name.
C6_HealthReportsHolder ==
    [][\A c \in Clients :
          (Answers(c) /\ request[c].path = "/health")
          => /\ response'[c].status = 200
             /\ response'[c].model = MODEL_NAME
             /\ response'[c].model_loaded <=> (model # None)]_vars

C6_Witness ==
    \E c, d \in Clients :
        /\ request[c].path = "/health" /\ Handled(c)
        /\ request[d].path = "/health" /\ Handled(d)
        /\ response[c].model_loaded /\ ~response[d].model_loaded

\* C7: the normalize flag of the request (True when omitted) is the one
\* passed to encode, and with it set every returned vector has L2 norm 1
\* within the tolerance.
C7_Normalized ==
    \A c \in Clients :
        (IsEmbed(c) /\ response[c].status = 200)
        => /\ encodeArgs[c].call.normalize_embeddings
                 <=> (request[c].body.normalize \in {"true", "omitted"})
           /\ (request[c].body.normalize \in {"true", "omitted"})
                 => \A i \in 1..Len(response[c].embeddings) :
                       UnitNorm(response[c].embeddings[i])

C7_Witness ==
    \E c \in Clients :
        /\ IsEmbed(c) /\ response[c].status = 200
        /\ request[c].body.normalize = "omitted"
        /\ \E i \in 1..Len(TextsOf(c)) : TextsOf(c)[i] = "b"

\* C8: the model holder is written only by the startup load, at most once;
\* no request changes it, and a loaded model stays the same.
C8_HolderWrittenOnce ==
    [][/\ (model' # model)
            => /\ startup = "pending" /\ startup' = "complete"
               /\ model = None
               /\ response' = response /\ request' = request
       /\ (startup # "pending") => model' = model]_vars

C8_Witness ==
    /\ model = LoadedModel
    /\ \E c, d \in Clients :
          /\ IsEmbed(c) /\ response[c].status = 500
          /\ request[d].path = "/health" /\ Handled(d)

\* C9: a failed load is logged and aborts the startup: the model stays
\* unloaded and no request is handled after it.
C9_FailedLoadAborts ==
    [][/\ (loadResult' \in LoadErrors)
            => /\ startup' = "failed"
               /\ model' = None
               /\ lastLog' = Error("Failed to load model", loadResult')
       /\ (loadResult \in LoadErrors)
            => \A c \in Clients :
                  /\ ~Answers(c)
                  /\ request'[c] \in {request[c], NoRequest}]_vars

C9_Witness ==
    /\ loadResult \in LoadErrors
    /\ \E c \in Clients : request[c] # NoRequest /\ ~Handled(c)

\* two handled requests with the same texts and normalize flag, the same
\* outcome of encode and the same availability of the model
SameCase(c, d) ==
    /\ IsEmbed(c) /\ Handled(c) /\ IsEmbed(d) /\ Handled(d)
    /\ TextsOf(c) = TextsOf(d)
    /\ (request[c].body.normalize = "false")
          <=> (request[d].body.normalize = "false")
    /\ encodeArgs[c].raised = encodeArgs[d].raised
    /\ (response[c].status = 503) <=> (response[d].status = 503)

Deterministic ==
    \A c, d \in Clients : SameCase(c, d) => response[c] = response[d]

\* C10: handling a POST /embed changes nothing another request reads (the
\* model holder, the other requests and their responses), and its response
\* depends only on its own texts and flag and on the model being loaded.
C10_Independent ==
    [][/\ \A c \in Clients :
            (Answers(c) /\ IsEmbed(c))
            => /\ model' = model
               /\ \A d \in Clients \ {c} :
                     /\ request'[d] = request[d]
                     /\ response'[d] = response[d]
                     /\ encodeArgs'[d] = encodeArgs[d]
       /\ Deterministic']_vars

C10_Witness ==
    \E c, d \in Clients :
        /\ c # d
        /\ IsEmbed(c) /\ IsEmbed(d)
        /\ TextsOf(c) = TextsOf(d)
        /\ request[c].body.normalize = "true"
        /\ request[d].body.normalize = "omitted"
        /\ response[c].status = 200 /\ response[d].status = 200

====
